---- MODULE Spec2Model ----
(***************************************************************************)
(* The project materialization pipeline of scaffold (src/src/main.rs):     *)
(* create_project and the stage functions init_git_repo, add_dependencies  *)
(* and verify_build, run against one target directory.                     *)
(*                                                                         *)
(* A project name is a sequence of characters.  A character is one of the  *)
(* tokens of Alphabet, each standing for a class of Unicode scalar values. *)
(* A directory is a function from the names of its children to their       *)
(* content; a content and a command-line argument are sequences of strings *)
(* (concatenation of text is concatenation of sequences).                  *)
(***************************************************************************)
EXTENDS Integers, Sequences, FiniteSets, TLC

VARIABLES
    cli,        \* the parsed command line (cli.rs, struct Cli)
    config,     \* the loaded configuration (config.rs, struct Config)
    pc,         \* the stage create_project is in
    entered,    \* the stages entered so far, in order
    fs0,        \* the target path as it was before the run
    fs,         \* the target path now
    fsOps,      \* the file-system calls made so far, in order
    scan,       \* the result of is_scaffoldable_directory, "none" before it ran
    cmds,       \* the external commands attempted so far, in order
    depIdx,     \* add_dependencies: position of the next dependency
    out,        \* lines printed to standard output
    log,        \* records written through the log macros
    err,        \* the error create_project returned, NoErr while it runs
    shown,      \* verify_build: the text of the build's stderr it printed
    exit,       \* the exit code of the process, <<>> while it runs
    report,     \* what the runtime wrote to standard error for the Err main returned
    disk,       \* Config::load: the files at the places it looks for a configuration
    loaded,     \* Config::load: the Result it returned, NotLoaded before
    tried,      \* Config::load: the places it has read so far, in order
    describe,   \* build.rs: what running git describe gives in the build environment
    GIT_DESCRIBE \* build.rs: the value of the variable it hands to rustc, <<>> before

vars ==
    <<cli, config, pc, entered, fs0, fs, fsOps, scan, cmds, depIdx, out, log, err,
      shown, exit, report, disk, loaded, tried, describe, GIT_DESCRIBE>>

----------------------------------------------------------------------------
(* Bounds of the model *)

MaxNameLen == 2
MaxDeps == 3
MaxStderrLen == 2
MaxDescribeLen == 3

----------------------------------------------------------------------------
(* Characters and project names *)

\* "a": an ASCII letter, "7": an ASCII digit, "@": an ASCII character that is
\* neither, "U+00E9": a non-ASCII letter (e with acute accent).
Alphabet == {"a", "7", "-", "_", "@", "U+00E9"}

\* char::is_alphanumeric is the Unicode property Alphabetic or Numeric.
is_alphanumeric(c) == c \in {"a", "7", "U+00E9"}

NamesUpTo(n) == UNION {[1..k -> Alphabet] : k \in 0..n}

NoError == "ok"
EmptyNameMsg == "Project name cannot be empty"
LeadingCharMsg == "Project name cannot start with '-' or '_' (these look like CLI flags)"
CharsetMsg == "Project name must contain only alphanumeric characters, hyphens, and underscores"

starts_with(s, c) == Len(s) > 0 /\ s[1] = c

\* NameError without the check of the first character.
NameError_noLeadingRule(project) ==
    IF project = <<>> THEN EmptyNameMsg
    ELSE IF ~(\A i \in 1..Len(project) :
                is_alphanumeric(project[i]) \/ project[i] = "_" \/ project[i] = "-")
         THEN CharsetMsg
    ELSE NoError

\* NameError with a character check that forgets the hyphen.
NameError_noHyphen(project) ==
    IF project = <<>> THEN EmptyNameMsg
    ELSE IF starts_with(project, "-") \/ starts_with(project, "_") THEN LeadingCharMsg
    ELSE IF ~(\A i \in 1..Len(project) : is_alphanumeric(project[i]) \/ project[i] = "_")
         THEN CharsetMsg
    ELSE NoError

\* NameError with the character check ahead of the check of the first character.
NameError_charsetFirst(project) ==
    IF project = <<>> THEN EmptyNameMsg
    ELSE IF ~(\A i \in 1..Len(project) :
                is_alphanumeric(project[i]) \/ project[i] = "_" \/ project[i] = "-")
         THEN CharsetMsg
    ELSE IF starts_with(project, "-") \/ starts_with(project, "_") THEN LeadingCharMsg
    ELSE NoError

\* The three checks of create_project, in the order of the code.
NameError(project) ==
    IF project = <<>> THEN EmptyNameMsg
    ELSE IF starts_with(project, "-") \/ starts_with(project, "_") THEN LeadingCharMsg
    ELSE IF ~(\A i \in 1..Len(project) :
                is_alphanumeric(project[i]) \/ project[i] = "_" \/ project[i] = "-")
         THEN CharsetMsg
    ELSE NoError

----------------------------------------------------------------------------
(* The target path and the directory safety check *)

ALLOWED_FILES ==
    {".git", ".gitignore", ".gitattributes", ".github", ".editorconfig", ".vscode",
     ".otto.yml", "README", "README.md", "README.txt", "LICENSE", "LICENSE.md",
     "LICENSE.txt", "LICENSE-MIT", "LICENSE-APACHE", "CODEOWNERS", "CONTRIBUTING",
     "CONTRIBUTING.md", "CODE_OF_CONDUCT", "CODE_OF_CONDUCT.md", "SECURITY",
     "SECURITY.md"}

\* The children a target directory may hold before the run.
PreNames == {".git", "README.md", "LICENSE", "Readme.MD", "notes.txt"}

\* The children a run adds to its target: the files of the materializer and
\* what cargo build leaves behind.
OutputNames == {"Cargo.toml", "build.rs", "src", "<project>.yml", "target", "Cargo.lock"}

\* u8::to_ascii_lowercase applied to every byte of a name, tabulated for the
\* names of the model.
AsciiLower ==
    [n \in ALLOWED_FILES \cup PreNames \cup OutputNames |->
        CASE n = "README" -> "readme"
          [] n = "Cargo.toml" -> "cargo.toml"
          [] n = "Cargo.lock" -> "cargo.lock"
          [] n = "README.md" -> "readme.md"
          [] n = "Readme.MD" -> "readme.md"
          [] n = "README.txt" -> "readme.txt"
          [] n = "LICENSE" -> "license"
          [] n = "LICENSE.md" -> "license.md"
          [] n = "LICENSE.txt" -> "license.txt"
          [] n = "LICENSE-MIT" -> "license-mit"
          [] n = "LICENSE-APACHE" -> "license-apache"
          [] n = "CODEOWNERS" -> "codeowners"
          [] n = "CONTRIBUTING" -> "contributing"
          [] n = "CONTRIBUTING.md" -> "contributing.md"
          [] n = "CODE_OF_CONDUCT" -> "code_of_conduct"
          [] n = "CODE_OF_CONDUCT.md" -> "code_of_conduct.md"
          [] n = "SECURITY" -> "security"
          [] n = "SECURITY.md" -> "security.md"
          [] OTHER -> n]

eq_ignore_ascii_case(a, b) == AsciiLower[a] = AsciiLower[b]

\* A comparison with the allow-list that respects case.
IsAllowed_caseSensitive(name) == name \in ALLOWED_FILES

\* ALLOWED_FILES.iter().any(|&allowed| name.eq_ignore_ascii_case(allowed))
IsAllowed(name) == \E allowed \in ALLOWED_FILES : eq_ignore_ascii_case(name, allowed)

Absent == [kind |-> "absent", entries |-> <<>>]
EmptyDir == [kind |-> "dir", entries |-> <<>>]
RegularFile == [kind |-> "file", entries |-> <<>>]

UserContent == <<"user">>

DirWith(names) == [kind |-> "dir", entries |-> [n \in names |-> UserContent]]

\* Path::exists
Exists(d) == d.kind # "absent"

Children(d) == DOMAIN d.entries

\* The orders in which read_dir may yield the children of d.
ReadOrders(d) ==
    {o \in [1..Cardinality(Children(d)) -> Children(d)] :
        \A i, j \in DOMAIN o : i # j => o[i] # o[j]}

\* A scan that stops at the first entry and takes its verdict for the directory.
ScanEntries_firstDecides(order, i, faultAt) ==
    IF order = <<>> THEN "Ok(true)"
    ELSE IF faultAt = 1 THEN "Err"
    ELSE IF IsAllowed(order[1]) THEN "Ok(true)" ELSE "Ok(false)"

\* A scan in which each entry overwrites the verdict of the one before it.
ScanEntries_lastDecides(order, i, faultAt) ==
    IF order = <<>> \/ IsAllowed(order[Len(order)]) THEN "Ok(true)" ELSE "Ok(false)"

\* The loop of is_scaffoldable_directory from position i of the listing. The
\* entry at position faultAt yields an I/O error.
RECURSIVE ScanEntries(_, _, _)
ScanEntries(order, i, faultAt) ==
    IF i > Len(order) THEN "Ok(true)"
    ELSE IF i = faultAt THEN "Err"
    ELSE IF ~IsAllowed(order[i]) THEN "Ok(false)"
    ELSE ScanEntries(order, i + 1, faultAt)

\* A check that takes a path it cannot list for an empty directory and skips
\* the entries it cannot read.
is_scaffoldable_directory_errIsEmpty(d, order, faultAt) ==
    IF d.kind # "dir" \/ faultAt = 0 THEN "Ok(true)"
    ELSE IF \E i \in DOMAIN order : i # faultAt /\ ~IsAllowed(order[i])
         THEN "Ok(false)" ELSE "Ok(true)"

\* faultAt = 0: read_dir itself fails; faultAt > Len(order): nothing fails.
\* read_dir on a regular file always fails.
is_scaffoldable_directory(d, order, faultAt) ==
    IF d.kind # "dir" \/ faultAt = 0 THEN "Err"
    ELSE ScanEntries(order, 1, faultAt)

\* A preparation that always starts from a fresh directory.
PreparedDir_fresh(d) == EmptyDir

\* What the target is once PreparingDirectory has succeeded: create_dir_all on an
\* absent path gives an empty directory, an existing directory is used as it is.
PreparedDir(d) == IF Exists(d) THEN d ELSE EmptyDir

\* A check that looks for .git in the wrong place.
GitDirExists_never(d) == FALSE

\* target_dir.join(".git").exists()
GitDirExists(d) == ".git" \in Children(d)

----------------------------------------------------------------------------
(* Configuration, dependencies and the template materializer *)

NoAuthor == "None"

\* A path: where it starts ("." the current working directory, "/" the root)
\* and the names it goes through. NoDirectory is a missing --directory.
NoDirectory == [base |-> "none", components |-> <<>>]

\* PathBuf::from(project): a relative path, of one name unless project is empty.
PathBuf_from(project) ==
    [base |-> ".", components |-> IF project = <<>> THEN <<>> ELSE <<project>>]

\* Path::join
Join(path, name) == [path EXCEPT !.components = Append(@, name)]

\* A target that is always the default directory.
target_dir_ignoresOverride == PathBuf_from(cli.project)

\* cli.directory.as_ref().unwrap_or(&default_dir)
target_dir ==
    IF cli.directory # NoDirectory THEN cli.directory ELSE PathBuf_from(cli.project)

NoPath == "None"
DefaultAuthor == "Your Name <your.email@example.com>"
CustomAuthor == "Custom Author <custom@test.com>"
TestAuthor == "Test Author <test@example.com>"
\* --author "": an author that is given and empty.
EmptyAuthor == ""

DepPool ==
    {[name |-> "clap", features |-> <<"derive">>],
     [name |-> "eyre", features |-> <<>>],
     [name |-> "tokio", features |-> <<"rt", "macros">>]}

DepLists(n) == UNION {[1..k -> DepPool] : k \in 0..n}

\* TemplateConfig::default().dependencies
DefaultDependencies ==
    <<[name |-> "clap", features |-> <<"derive">>],
      [name |-> "eyre", features |-> <<>>],
      [name |-> "log", features |-> <<>>],
      [name |-> "env_logger", features |-> <<>>],
      [name |-> "serde", features |-> <<"derive">>],
      [name |-> "serde_yaml", features |-> <<>>],
      [name |-> "dirs", features |-> <<>>],
      [name |-> "colored", features |-> <<>>]>>

\* An empty author taken for a missing one.
EffectiveAuthor_emptyIsNone ==
    IF cli.author \notin {NoAuthor, EmptyAuthor} THEN cli.author ELSE config.default_author

\* cli.author.as_ref().unwrap_or(&config.default_author)
EffectiveAuthor == IF cli.author # NoAuthor THEN cli.author ELSE config.default_author

\* The name of the sample configuration file, format!("{}.yml", project). No
\* valid project name contains '.', so it differs from every other name here.
SampleConfigName == "<project>.yml"

\* The direct children generate_project writes into the target, in order, each
\* with its content.
GeneratedFiles(author, cfg, no_deps) ==
    <<  <<"Cargo.toml",
          <<"[package]", author, "[dependencies]">> \o
              (IF no_deps THEN <<"basic dependencies">> ELSE <<>>)>>,
        <<"build.rs", <<"generated">>>>,
        <<"src", <<"generated">>>> >>
    \o (IF cfg.create_sample_config THEN << <<SampleConfigName, <<"generated">>>> >> ELSE <<>>)

\* The directory after the first n of the files have been written: a write
\* creates the child or replaces its content, and touches nothing else.
RECURSIVE WriteFiles(_, _, _)
WriteFiles(d, files, n) ==
    IF n = 0 THEN d
    ELSE LET before == WriteFiles(d, files, n - 1)
         IN  [before EXCEPT !.entries = (files[n][1] :> files[n][2]) @@ before.entries]

----------------------------------------------------------------------------
(* External commands *)

RECURSIVE join(_, _)
\* [String]::join(sep)
join(parts, sep) ==
    IF parts = <<>> THEN <<>>
    ELSE IF Len(parts) = 1 THEN <<parts[1]>>
    ELSE <<parts[1], sep>> \o join(Tail(parts), sep)

GitInitCmd == [prog |-> "git", args |-> << <<"init">> >>]

\* An invocation that passes one --features argument per feature.
CargoAddCmd_flagPerFeature(dep) ==
    [prog |-> "cargo",
     args |-> << <<"add">>, <<dep.name>> >> \o
              [i \in 1..Len(dep.features) |-> <<"--features=", dep.features[i]>>]]

\* cmd.args(["add", &dep.name]) and, for a non-empty feature list, the argument
\* format!("--features={}", dep.features.join(","))
CargoAddCmd(dep) ==
    [prog |-> "cargo",
     args |-> << <<"add">>, <<dep.name>> >> \o
              (IF dep.features # <<>>
               THEN << <<"--features=">> \o join(dep.features, ",") >>
               ELSE <<>>)]

CargoBuildCmd == [prog |-> "cargo", args |-> << <<"build">> >>]

\* An attempted invocation in the target directory (current_dir(target_dir)):
\* Command::output either fails to spawn or blocks until the child has exited.
Attempt(cmd, spawned) ==
    [prog |-> cmd.prog, args |-> cmd.args, cwd |-> target_dir,
     status |-> IF spawned THEN "running" ELSE "spawn failed",
     stderr |-> <<>>]

InFlight == cmds # <<>> /\ cmds[Len(cmds)].status = "running"

Returned(code) == [cmds EXCEPT ![Len(cmds)].status = IF code = 0 THEN "exit 0" ELSE "exit 1"]

ExitCodes == {0, 1}

\* The bytes a child may write to its standard error: "e" is a byte of valid
\* UTF-8 text, "0xFF" a byte that is valid in no UTF-8 sequence.
StderrBytes == {"e", "0xFF"}

StderrTexts == UNION {[1..k -> StderrBytes] : k \in 0..MaxStderrLen}

\* A decoding that drops what it cannot decode.
from_utf8_lossy_dropping(bytes) == SelectSeq(bytes, LAMBDA b : b # "0xFF")

\* String::from_utf8_lossy: valid text as it is, U+FFFD for each invalid byte.
from_utf8_lossy(bytes) ==
    [i \in 1..Len(bytes) |-> IF bytes[i] = "0xFF" THEN "U+FFFD" ELSE bytes[i]]

\* Effects of the external tools on the target directory when they succeed.
GitInitEffect(d) == [d EXCEPT !.entries = (".git" :> <<"git init">>) @@ d.entries]

CargoAddEffect(d, dep) ==
    IF "Cargo.toml" \in Children(d)
    THEN [d EXCEPT !.entries["Cargo.toml"] = Append(@, dep.name)]
    ELSE d

CargoBuildEffect(d) ==
    [d EXCEPT !.entries =
        ("target" :> <<"build output">>) @@ ("Cargo.lock" :> <<"lock">>) @@ d.entries]

----------------------------------------------------------------------------
(* Control flow of create_project *)

Stages ==
    <<"Validating", "PreparingDirectory", "Materializing", "InitializingVersionControl",
      "ResolvingDependencies", "VerifyingBuild", "Done">>

\* The switch of the version-control stage tested once more after the dependencies.
AfterDependencies_gitAgain ==
    IF ~cli.no_git /\ config.create_git_repo THEN "InitializingVersionControl"
    ELSE IF ~cli.no_verify THEN "VerifyingBuild" ELSE "Done"

\* if !cli.no_verify { verify_build } and then the success summary
AfterDependencies == IF ~cli.no_verify THEN "VerifyingBuild" ELSE "Done"

\* A dependency stage that ignores its switch.
AfterVersionControl_depsAlways == "ResolvingDependencies"

\* if !cli.no_deps { add_dependencies }
AfterVersionControl == IF ~cli.no_deps THEN "ResolvingDependencies" ELSE AfterDependencies

\* A version-control stage that only looks at the command line.
AfterMaterializing_cliOnly ==
    IF ~cli.no_git THEN "InitializingVersionControl" ELSE AfterVersionControl

\* if !cli.no_git && config.create_git_repo { init_git_repo }
AfterMaterializing ==
    IF ~cli.no_git /\ config.create_git_repo
    THEN "InitializingVersionControl"
    ELSE AfterVersionControl

Summary == <<"Project created successfully!", "Next steps:", "cd <target>", "cargo run">>

NoErr == [stage |-> "none", kind |-> "none", msg |-> "", subject |-> ""]

inputs == <<cli, config, fs0>>

\* The state of Config::load, which create_project never touches.
loader == <<disk, loaded, tried>>

\* The state of the build script, which has run before the program exists.
build == <<describe, GIT_DESCRIBE>>

\* Control moves to the given stage; reaching Done prints the summary.
Goto(stage, printed) ==
    /\ pc' = stage
    /\ entered' = Append(entered, stage)
    /\ out' = out \o printed \o (IF stage = "Done" THEN Summary ELSE <<>>)
    /\ err' = err

\* create_project returns Err from the stage it is in.
Abort(kind, msg, subject, printed) ==
    /\ pc' = "Aborted"
    /\ entered' = entered
    /\ out' = out \o printed
    /\ err' = [stage |-> pc, kind |-> kind, msg |-> msg, subject |-> subject]

Call(op, args) == [op |-> op, args |-> args]

Info(msg) == <<"info", msg>>
Warn(msg) == <<"warn", msg>>
Error(msg) == <<"error", msg>>

----------------------------------------------------------------------------
(* The stages *)

Validate ==
    /\ pc = "Validating"
    /\ IF NameError(cli.project) # NoError
       THEN /\ Abort("Validation", NameError(cli.project), "", <<>>)
            /\ log' = log
       ELSE /\ Goto("PreparingDirectory", <<"Creating project">>)
            /\ log' = Append(log, Info("Creating project"))
    /\ UNCHANGED <<inputs, loader, build, shown, exit, report, fs, fsOps, scan, cmds, depIdx>>

PrepareDirectory ==
    /\ pc = "PreparingDirectory"
    /\ IF Exists(fs)
       THEN \E order \in ReadOrders(fs), faultAt \in 0..(Cardinality(Children(fs)) + 1) :
              LET r == is_scaffoldable_directory(fs, order, faultAt) IN
              /\ fsOps' = fsOps \o <<Call("exists", <<target_dir>>), Call("read_dir", <<target_dir>>)>>
              /\ scan' = r
              /\ CASE r = "Err" ->
                        /\ Abort("Io", "<text of the io::Error>", "", <<>>)
                        /\ log' = log
                        /\ fs' = fs
                   [] r = "Ok(false)" ->
                        /\ Abort("DirectoryOccupied",
                                 "Directory already exists and contains non-repo files", "", <<>>)
                        /\ log' = Append(log, Info("Directory contains non-repo file, blocking scaffold"))
                        /\ fs' = fs
                   [] r = "Ok(true)" ->
                        /\ Goto("Materializing", <<"Using existing directory">>)
                        /\ log' = log
                        /\ fs' = PreparedDir(fs)
       ELSE \E created \in BOOLEAN :
              /\ fsOps' = fsOps \o <<Call("exists", <<target_dir>>), Call("create_dir_all", <<target_dir>>)>>
              /\ scan' = scan
              /\ log' = log
              /\ IF created
                 THEN /\ Goto("Materializing", <<"Created directory">>)
                      /\ fs' = PreparedDir(fs)
                 ELSE /\ Abort("Io", "Failed to create project directory", "", <<>>)
                      /\ fs' = fs
    /\ UNCHANGED <<inputs, loader, build, shown, exit, report, cmds, depIdx>>

\* templates::generate_project(project, target_dir, author, config, cli.no_deps)?
Materialize ==
    /\ pc = "Materializing"
    /\ LET files == GeneratedFiles(EffectiveAuthor, config, cli.no_deps) IN
       \E written \in 0..Len(files) :
          /\ fsOps' = Append(fsOps, Call("generate_project",
                                         <<EffectiveAuthor, IF cli.no_deps THEN "no_deps" ELSE "deps",
                                           target_dir>>))
          /\ fs' = WriteFiles(fs, files, written)
          /\ IF written = Len(files)
             THEN Goto(AfterMaterializing, <<>>)
             ELSE Abort("Io", "generate_project failed", "", <<>>)
    /\ UNCHANGED <<inputs, loader, build, shown, exit, report, scan, cmds, depIdx, log>>

\* init_git_repo up to the point where Command::output blocks.
init_git_repo ==
    /\ pc = "InitializingVersionControl"
    /\ ~InFlight
    /\ fsOps' = Append(fsOps, Call("exists", <<Join(target_dir, <<".git">>)>>))
    /\ IF GitDirExists(fs)
       THEN /\ log' = Append(log, Info("Git repository already exists, skipping init"))
            /\ Goto(AfterVersionControl, <<"Git repository already exists">>)
            /\ cmds' = cmds
       ELSE /\ log' = Append(log, Info("Initializing git repository"))
            /\ \E spawned \in BOOLEAN :
                 /\ cmds' = Append(cmds, Attempt(GitInitCmd, spawned))
                 /\ IF spawned
                    THEN UNCHANGED <<pc, entered, out, err>>
                    ELSE Abort("ExternalCommand", "Failed to run git init", "", <<>>)
    /\ UNCHANGED <<inputs, loader, build, shown, exit, report, fs, scan, depIdx>>

\* init_git_repo returning an error when git init exits non-zero.
init_git_repo_exit_fatal ==
    /\ pc = "InitializingVersionControl"
    /\ InFlight
    /\ \E code \in ExitCodes :
         /\ cmds' = Returned(code)
         /\ fs' = IF code = 0 THEN GitInitEffect(fs) ELSE fs
         /\ log' = log
         /\ IF code = 0
            THEN Goto(AfterVersionControl, <<"Initialized git repository">>)
            ELSE Abort("ExternalCommand", "Git init failed", "", <<>>)
    /\ UNCHANGED <<inputs, loader, build, shown, exit, report, fsOps, scan, depIdx>>

\* init_git_repo once git init has exited.
init_git_repo_exit ==
    /\ pc = "InitializingVersionControl"
    /\ InFlight
    /\ \E code \in ExitCodes :
         /\ cmds' = Returned(code)
         /\ IF code = 0
            THEN /\ fs' = GitInitEffect(fs)
                 /\ log' = log
                 /\ Goto(AfterVersionControl, <<"Initialized git repository">>)
            ELSE /\ fs' = fs
                 /\ log' = Append(log, Warn("Git init failed, continuing without git repository"))
                 /\ Goto(AfterVersionControl,
                         <<"Git init failed, continuing without git repository">>)
    /\ UNCHANGED <<inputs, loader, build, shown, exit, report, fsOps, scan, depIdx>>

\* The dependency list walked from its end.
Dependencies_reversed ==
    [i \in 1..Len(config.template.dependencies) |->
        config.template.dependencies[Len(config.template.dependencies) + 1 - i]]

\* for dep in &config.template.dependencies
Dependencies == config.template.dependencies

\* The two lines add_dependencies runs before its loop.
AddDepsEntryLog == IF depIdx = 1 THEN <<Info("Adding dependencies")>> ELSE <<>>
AddDepsEntryOut == IF depIdx = 1 THEN <<"Adding dependencies...">> ELSE <<>>

\* An iteration that starts cargo add without waiting for the command started
\* before it (Command::spawn in place of Command::output).
add_dependencies_spawning ==
    /\ pc = "ResolvingDependencies"
    /\ depIdx <= Len(Dependencies)
    /\ Len(cmds) < Len(Dependencies) + 2
    /\ cmds' = Append(cmds, Attempt(CargoAddCmd(Dependencies[depIdx]), TRUE))
    /\ log' = log \o AddDepsEntryLog
    /\ out' = out \o AddDepsEntryOut
    /\ UNCHANGED <<inputs, loader, build, shown, exit, report, fs, fsOps, scan, depIdx, pc, entered, err>>

\* One iteration of the loop of add_dependencies up to Command::output.
add_dependencies ==
    /\ pc = "ResolvingDependencies"
    /\ ~InFlight
    /\ depIdx <= Len(Dependencies)
    /\ LET dep == Dependencies[depIdx] IN
       \E spawned \in BOOLEAN :
         /\ cmds' = Append(cmds, Attempt(CargoAddCmd(dep), spawned))
         /\ log' = log \o AddDepsEntryLog
         /\ IF spawned
            THEN /\ out' = out \o AddDepsEntryOut
                 /\ UNCHANGED <<pc, entered, err>>
            ELSE Abort("ExternalCommand", "Failed to add dependency", dep.name, AddDepsEntryOut)
    /\ UNCHANGED <<inputs, loader, build, shown, exit, report, fs, fsOps, scan, depIdx>>

\* An iteration that goes on to the next dependency whatever the exit status.
add_dependencies_exit_ignored ==
    /\ pc = "ResolvingDependencies"
    /\ InFlight
    /\ \E code \in ExitCodes :
         /\ cmds' = Returned(code)
         /\ fs' = IF code = 0 THEN CargoAddEffect(fs, config.template.dependencies[depIdx]) ELSE fs
         /\ depIdx' = depIdx + 1
    /\ UNCHANGED <<inputs, loader, build, shown, exit, report, fsOps, scan, pc, entered, out, err, log>>

\* An iteration that takes the dependencies added so far out of the manifest
\* when cargo add fails.
add_dependencies_exit_rollback ==
    /\ pc = "ResolvingDependencies"
    /\ InFlight
    /\ LET dep == Dependencies[depIdx] IN
       \E code \in ExitCodes :
         /\ cmds' = Returned(code)
         /\ IF code = 0
            THEN /\ fs' = CargoAddEffect(fs, dep)
                 /\ depIdx' = depIdx + 1
                 /\ log' = log
                 /\ UNCHANGED <<pc, entered, out, err>>
            ELSE /\ fs' = [fs EXCEPT !.entries["Cargo.toml"] = SubSeq(@, 1, Len(@) - (depIdx - 1))]
                 /\ depIdx' = depIdx
                 /\ log' = Append(log, Error("Failed to add dependency"))
                 /\ Abort("ExternalCommand", "Failed to add dependency", dep.name, <<>>)
    /\ UNCHANGED <<inputs, loader, build, shown, exit, report, fsOps, scan>>

\* The rest of the iteration, once cargo add has exited.
add_dependencies_exit ==
    /\ pc = "ResolvingDependencies"
    /\ InFlight
    /\ LET dep == Dependencies[depIdx] IN
       \E code \in ExitCodes :
         /\ cmds' = Returned(code)
         /\ IF code = 0
            THEN /\ fs' = CargoAddEffect(fs, dep)
                 /\ depIdx' = depIdx + 1
                 /\ log' = log
                 /\ UNCHANGED <<pc, entered, out, err>>
            ELSE /\ fs' = fs
                 /\ depIdx' = depIdx
                 /\ log' = Append(log, Error("Failed to add dependency"))
                 /\ Abort("ExternalCommand", "Failed to add dependency", dep.name, <<>>)
    /\ UNCHANGED <<inputs, loader, build, shown, exit, report, fsOps, scan>>

\* The loop of add_dependencies has run out of dependencies.
add_dependencies_done ==
    /\ pc = "ResolvingDependencies"
    /\ ~InFlight
    /\ depIdx > Len(Dependencies)
    /\ log' = log \o AddDepsEntryLog
    /\ Goto(AfterDependencies, AddDepsEntryOut \o <<"Dependencies added successfully">>)
    /\ UNCHANGED <<inputs, loader, build, shown, exit, report, fs, fsOps, scan, cmds, depIdx>>

\* verify_build up to Command::output.
verify_build ==
    /\ pc = "VerifyingBuild"
    /\ ~InFlight
    /\ log' = Append(log, Info("Verifying project builds"))
    /\ \E spawned \in BOOLEAN :
         /\ cmds' = Append(cmds, Attempt(CargoBuildCmd, spawned))
         /\ IF spawned
            THEN /\ out' = Append(out, "Verifying project builds...")
                 /\ UNCHANGED <<pc, entered, err>>
            ELSE Abort("ExternalCommand", "Failed to run cargo build", "",
                       <<"Verifying project builds...">>)
    /\ UNCHANGED <<inputs, loader, build, shown, exit, report, fs, fsOps, scan, depIdx>>

\* verify_build reporting success whatever the exit status of the build.
verify_build_exit_swallowed ==
    /\ pc = "VerifyingBuild"
    /\ InFlight
    /\ \E code \in ExitCodes :
         /\ cmds' = Returned(code)
         /\ fs' = IF code = 0 THEN CargoBuildEffect(fs) ELSE fs
         /\ log' = log
         /\ Goto("Done", <<"Project builds successfully">>)
    /\ UNCHANGED <<inputs, loader, build, shown, exit, report, fsOps, scan, depIdx>>

\* verify_build giving up on a build that has not exited.
verify_build_exit_timeout ==
    /\ pc = "VerifyingBuild"
    /\ InFlight
    /\ log' = Append(log, Error("Project failed to build"))
    /\ Abort("ExternalCommand", "Generated project failed to build", "", <<>>)
    /\ UNCHANGED <<inputs, loader, build, exit, report, fsOps, scan, depIdx, fs, cmds, shown>>

\* verify_build once cargo build has exited. The captured stderr is read only
\* when the build failed.
verify_build_exit ==
    /\ pc = "VerifyingBuild"
    /\ InFlight
    /\ \E code \in ExitCodes, bytes \in StderrTexts :
         /\ code = 0 => bytes = <<>>
         /\ cmds' = [Returned(code) EXCEPT ![Len(cmds)].stderr = bytes]
         /\ IF code = 0
            THEN /\ fs' = CargoBuildEffect(fs)
                 /\ log' = log
                 /\ shown' = shown
                 /\ Goto("Done", <<"Project builds successfully">>)
            ELSE /\ fs' = fs
                 /\ log' = Append(log, Error("Project failed to build"))
                 /\ shown' = from_utf8_lossy(bytes)
                 /\ Abort("ExternalCommand", "Generated project failed to build", "",
                          <<"<stderr of cargo build>">>)
    /\ UNCHANGED <<inputs, loader, build, exit, report, fsOps, scan, depIdx>>

\* A main that drops the result of create_project.
main_return_ignoresResult ==
    /\ pc \in {"Done", "Aborted"}
    /\ exit = <<>>
    /\ exit' = <<0>>
    /\ report' = <<>>
    /\ UNCHANGED <<inputs, loader, build, shown, pc, entered, fs, fsOps, scan, cmds, depIdx, out, log, err>>

\* main once create_project has returned: Ok(()) ends the process with code 0,
\* Err with code 1 after the error and its context are written to standard error.
main_return ==
    /\ pc \in {"Done", "Aborted"}
    /\ exit = <<>>
    /\ exit' = IF pc = "Done" THEN <<0>> ELSE <<1>>
    /\ report' = IF pc = "Done" THEN <<>> ELSE <<"Failed to create project", err.msg>>
    /\ UNCHANGED <<inputs, loader, build, shown, pc, entered, fs, fsOps, scan, cmds, depIdx, out, log, err>>

----------------------------------------------------------------------------
(* Configuration files: serde_yaml documents and the derived (de)serializers *)

\* A YAML document is a tree of nodes. A scalar keeps the style it is written
\* in ("plain", "single", "double") and its text.
Scalar(style, text) == [kind |-> "scalar", style |-> style, text |-> text]
Sequence(items) == [kind |-> "seq", items |-> items]
Mapping(fields) == [kind |-> "map", fields |-> fields]
\* A text that is no YAML document, such as "invalid: yaml: content: [".
Malformed == [kind |-> "malformed"]
NoText == [kind |-> "none"]

Ok(v) == [ok |-> TRUE, value |-> v]
Err(chain) == [ok |-> FALSE, value |-> chain]

\* Two authors of the form "name <email>" whose text cannot stand as a plain
\* scalar: a leading space is not part of a plain scalar, and "- " opens a
\* block sequence.
LeadingSpaceAuthor == " Ann <ann@example.com>"
LeadingDashAuthor == "- <dash@example.com>"

\* What the parser reads where the text stands unquoted after "key: ".
ReadPlain(text) ==
    CASE text = LeadingSpaceAuthor -> Ok("Ann <ann@example.com>")
      [] text = LeadingDashAuthor -> Err(<<"block sequence entries are not allowed in this context">>)
      [] OTHER -> Ok(text)

PlainAllowed(text) == text \notin {LeadingSpaceAuthor, LeadingDashAuthor}

\* A serializer that writes every string as a plain scalar.
emit_str_alwaysPlain(text) == Scalar("plain", text)

\* serialize_str: plain where the text reads back as itself, quoted otherwise.
emit_str(text) == Scalar(IF PlainAllowed(text) THEN "plain" ELSE "single", text)

emit_bool(b) == Scalar("plain", IF b THEN "true" ELSE "false")

\* #[derive(Serialize)]: every field of the struct, in declaration order.
ser_Dependency(dep) ==
    Mapping([name |-> emit_str(dep.name),
             features |-> Sequence([i \in DOMAIN dep.features |-> emit_str(dep.features[i])])])

ser_TemplateConfig(t) ==
    Mapping([create_build_rs |-> emit_bool(t.create_build_rs),
             dependencies |->
                 Sequence([i \in DOMAIN t.dependencies |-> ser_Dependency(t.dependencies[i])])])

\* serde_yaml::to_string(&config)
to_string(cfg) ==
    Mapping([default_author |-> emit_str(cfg.default_author),
             default_license |-> emit_str(cfg.default_license),
             create_git_repo |-> emit_bool(cfg.create_git_repo),
             create_sample_config |-> emit_bool(cfg.create_sample_config),
             debug |-> emit_bool(cfg.debug),
             template |-> ser_TemplateConfig(cfg.template)])

\* TemplateConfig::default() and Config::default(), with the fields of the model.
TemplateConfig_default == [create_build_rs |-> TRUE, dependencies |-> DefaultDependencies]

Config_default ==
    [default_author |-> DefaultAuthor, default_license |-> "MIT", create_git_repo |-> TRUE,
     create_sample_config |-> TRUE, debug |-> FALSE, template |-> TemplateConfig_default]

\* Defaults taken per field from the field's type, as #[serde(default)] on each
\* field would give them.
MissingField_typeDefault(defaults, field) ==
    CASE field \in {"default_author", "default_license"} -> ""
      [] field \in {"create_git_repo", "create_sample_config", "debug", "create_build_rs"} -> FALSE
      [] field = "dependencies" -> <<>>
      [] field = "template" -> [create_build_rs |-> FALSE, dependencies |-> <<>>]

\* #[serde(default)] on the struct: a field the document omits is taken from
\* the value of Default::default() for the whole struct.
MissingField(defaults, field) == defaults[field]

de_String(node) ==
    IF node.kind # "scalar" THEN Err(<<"invalid type: expected a string">>)
    ELSE IF node.style = "plain" THEN ReadPlain(node.text)
    ELSE Ok(node.text)

de_bool(node) ==
    IF node.kind = "scalar" /\ node.style = "plain" /\ node.text \in {"true", "false"}
    THEN Ok(node.text = "true")
    ELSE Err(<<"invalid type: expected a boolean">>)

\* Vec<String>
de_features(node) ==
    IF node.kind = "seq" /\ \A i \in DOMAIN node.items : de_String(node.items[i]).ok
    THEN Ok([i \in DOMAIN node.items |-> de_String(node.items[i]).value])
    ELSE Err(<<"invalid type: expected a sequence of strings">>)

\* struct Dependency: name is required, features is #[serde(default)].
de_Dependency(node) ==
    IF /\ node.kind = "map"
       /\ "name" \in DOMAIN node.fields
       /\ de_String(node.fields["name"]).ok
       /\ "features" \in DOMAIN node.fields => de_features(node.fields["features"]).ok
    THEN Ok([name |-> de_String(node.fields["name"]).value,
             features |-> IF "features" \in DOMAIN node.fields
                          THEN de_features(node.fields["features"]).value
                          ELSE <<>>])
    ELSE Err(<<"invalid dependency">>)

\* Vec<Dependency>
de_dependencies(node) ==
    IF node.kind = "seq" /\ \A i \in DOMAIN node.items : de_Dependency(node.items[i]).ok
    THEN Ok([i \in DOMAIN node.items |-> de_Dependency(node.items[i]).value])
    ELSE Err(<<"invalid type: expected a sequence of dependencies">>)

\* Whether the document gives the field, and what the field is when it does not.
Given(node, field) == field \in DOMAIN node.fields
Defaulted(defaults, field) == Ok(MissingField(defaults, field))

\* #[derive(Deserialize)] #[serde(default)] struct TemplateConfig
de_TemplateConfig(node) ==
    IF node.kind # "map" THEN Err(<<"invalid type: expected struct TemplateConfig">>)
    ELSE LET b == IF Given(node, "create_build_rs")
                  THEN de_bool(node.fields["create_build_rs"])
                  ELSE Defaulted(TemplateConfig_default, "create_build_rs")
             d == IF Given(node, "dependencies")
                  THEN de_dependencies(node.fields["dependencies"])
                  ELSE Defaulted(TemplateConfig_default, "dependencies")
         IN  IF ~b.ok THEN b
             ELSE IF ~d.ok THEN d
             ELSE Ok([create_build_rs |-> b.value, dependencies |-> d.value])

\* #[derive(Deserialize)] #[serde(default)] struct Config
de_Config(node) ==
    IF node.kind # "map" THEN Err(<<"invalid type: expected struct Config">>)
    ELSE LET a == IF Given(node, "default_author")
                  THEN de_String(node.fields["default_author"])
                  ELSE Defaulted(Config_default, "default_author")
             l == IF Given(node, "default_license")
                  THEN de_String(node.fields["default_license"])
                  ELSE Defaulted(Config_default, "default_license")
             g == IF Given(node, "create_git_repo")
                  THEN de_bool(node.fields["create_git_repo"])
                  ELSE Defaulted(Config_default, "create_git_repo")
             s == IF Given(node, "create_sample_config")
                  THEN de_bool(node.fields["create_sample_config"])
                  ELSE Defaulted(Config_default, "create_sample_config")
             d == IF Given(node, "debug")
                  THEN de_bool(node.fields["debug"])
                  ELSE Defaulted(Config_default, "debug")
             t == IF Given(node, "template")
                  THEN de_TemplateConfig(node.fields["template"])
                  ELSE Defaulted(Config_default, "template")
         IN  IF ~a.ok \/ ~l.ok THEN Err(<<"invalid type: expected a string">>)
             ELSE IF ~g.ok \/ ~s.ok \/ ~d.ok THEN Err(<<"invalid type: expected a boolean">>)
             ELSE IF ~t.ok THEN t
             ELSE Ok([default_author |-> a.value, default_license |-> l.value,
                      create_git_repo |-> g.value, create_sample_config |-> s.value,
                      debug |-> d.value, template |-> t.value])

\* The state of one place on disk.
NoFile == [state |-> "absent", text |-> NoText]
\* A path that exists and cannot be read as text: a directory, a file without
\* read permission, a file that is not UTF-8.
Unreadable == [state |-> "unreadable", text |-> NoText]
File(text) == [state |-> "file", text |-> text]

\* Path::exists
FileExists(file) == file.state # "absent"

\* Config::load_from_file, without its log line.
load_from_file(file) ==
    IF file.state # "file" THEN Err(<<"Failed to read config file">>)
    ELSE IF file.text.kind = "malformed" \/ ~de_Config(file.text).ok
         THEN Err(<<"Failed to parse config file">>)
    ELSE de_Config(file.text)

NotLoaded == [ok |-> FALSE, value |-> <<>>, source |-> "none"]

Loaded(result, source) == [ok |-> result.ok, value |-> result.value, source |-> source]

\* Everything Config::load leaves alone.
pipeline ==
    <<cli, config, entered, fs0, fs, fsOps, scan, cmds, depIdx, out, err, shown, exit,
      report, disk, describe, GIT_DESCRIBE>>

\* An explicit path that falls through to ./scaffold.yml when it cannot be loaded.
load_explicit_fallsBack ==
    /\ pc = "Config::load"
    /\ cli.config # NoPath
    /\ LET r == load_from_file(disk.explicit) IN
         /\ tried' = Append(tried, "explicit")
         /\ IF r.ok
            THEN /\ loaded' = Loaded(r, "explicit")
                 /\ log' = Append(log, Info("Loaded config from"))
                 /\ pc' = "returned"
            ELSE /\ loaded' = loaded
                 /\ log' = Append(log, Warn("Failed to load config from"))
                 /\ pc' = "fallback"
    /\ UNCHANGED pipeline

\* if let Some(path) = config_path { return Self::load_from_file(path).context(..) }
load_explicit ==
    /\ pc = "Config::load"
    /\ cli.config # NoPath
    /\ LET r == load_from_file(disk.explicit) IN
         /\ tried' = Append(tried, "explicit")
         /\ loaded' = IF r.ok THEN Loaded(r, "explicit")
                      ELSE Loaded(Err(<<"Failed to load config from <path>">> \o r.value),
                                  "explicit")
         /\ log' = IF r.ok THEN Append(log, Info("Loaded config from")) ELSE log
         /\ pc' = "returned"
    /\ UNCHANGED pipeline

\* A primary location that is looked at and never used.
load_primary_ignored ==
    /\ pc = "Config::load"
    /\ cli.config = NoPath
    /\ IF disk.config_dir /\ FileExists(disk.primary)
       THEN tried' = Append(tried, "primary")
       ELSE tried' = tried
    /\ pc' = "fallback"
    /\ UNCHANGED <<loaded, log>>
    /\ UNCHANGED pipeline

\* The primary location, <config dir>/scaffold/scaffold.yml.
load_primary ==
    /\ pc = "Config::load"
    /\ cli.config = NoPath
    /\ IF disk.config_dir /\ FileExists(disk.primary)
       THEN LET r == load_from_file(disk.primary) IN
            /\ tried' = Append(tried, "primary")
            /\ IF r.ok
               THEN /\ loaded' = Loaded(r, "primary")
                    /\ log' = Append(log, Info("Loaded config from"))
                    /\ pc' = "returned"
               ELSE /\ loaded' = loaded
                    /\ log' = Append(log, Warn("Failed to load config from"))
                    /\ pc' = "fallback"
       ELSE /\ pc' = "fallback"
            /\ UNCHANGED <<tried, loaded, log>>
    /\ UNCHANGED pipeline

\* A fallback location whose failure is returned to the caller.
load_fallback_propagates ==
    /\ pc = "fallback"
    /\ IF FileExists(disk.fallback)
       THEN LET r == load_from_file(disk.fallback) IN
            /\ tried' = Append(tried, "fallback")
            /\ loaded' = Loaded(r, "fallback")
            /\ log' = IF r.ok THEN Append(log, Info("Loaded config from")) ELSE log
            /\ pc' = "returned"
       ELSE /\ pc' = "defaults"
            /\ UNCHANGED <<tried, loaded, log>>
    /\ UNCHANGED pipeline

\* The fallback location, ./scaffold.yml.
load_fallback ==
    /\ pc = "fallback"
    /\ IF FileExists(disk.fallback)
       THEN LET r == load_from_file(disk.fallback) IN
            /\ tried' = Append(tried, "fallback")
            /\ IF r.ok
               THEN /\ loaded' = Loaded(r, "fallback")
                    /\ log' = Append(log, Info("Loaded config from"))
                    /\ pc' = "returned"
               ELSE /\ loaded' = loaded
                    /\ log' = Append(log, Warn("Failed to load config from"))
                    /\ pc' = "defaults"
       ELSE /\ pc' = "defaults"
            /\ UNCHANGED <<tried, loaded, log>>
    /\ UNCHANGED pipeline

\* No config file found: Ok(Self::default())
load_defaults ==
    /\ pc = "defaults"
    /\ log' = Append(log, Info("No config file found, using defaults"))
    /\ loaded' = Loaded(Ok(Config_default), "defaults")
    /\ pc' = "returned"
    /\ UNCHANGED tried
    /\ UNCHANGED pipeline

----------------------------------------------------------------------------
(* build.rs: the version compiled into the tool *)

\* The characters of a tag or of an abbreviated commit hash.
DescribeChars == {"v", "1", ".", "-", "g"}

Descriptions == UNION {[1..k -> DescribeChars] : k \in 1..MaxDescribeLen}

ReleaseTag == <<"v", "1">>

\* The three results of Command::new("git").args(["describe", "--tags",
\* "--always"]).output(): git cannot be started; git prints a description and a
\* newline and exits with 0; git fails (no repository, no commit), writes its
\* message to standard error, nothing to standard output, and exits with 128.
GitNotSpawned == [spawned |-> FALSE, status |-> "spawn failed", stdout |-> <<>>]

GitDescribed(d) == [spawned |-> TRUE, status |-> "exit 0", stdout |-> d \o <<"\n">>]

GitFailed == [spawned |-> TRUE, status |-> "exit 128", stdout |-> <<>>]

BuildEnvironments == {GitNotSpawned, GitFailed} \cup {GitDescribed(d) : d \in Descriptions}

Whitespace == {" ", "\n"}

\* str::trim: the string without its leading and trailing whitespace.
trim(s) ==
    LET kept == {i \in DOMAIN s : s[i] \notin Whitespace} IN
    IF kept = {} THEN <<>>
    ELSE SubSeq(s, CHOOSE i \in kept : \A j \in kept : i <= j,
                   CHOOSE i \in kept : \A j \in kept : j <= i)

\* .output().map(|output| String::from_utf8_lossy(&output.stdout).trim().to_string())
\*          .unwrap_or_else(|_| "unknown".to_string())
\* output() is Ok whenever git was started, whatever its exit status.
git_describe(outcome) ==
    IF outcome.spawned THEN trim(from_utf8_lossy(outcome.stdout)) ELSE <<"unknown">>

\* main of build.rs: println!("cargo:rustc-env=GIT_DESCRIBE={}", git_describe)
build_rs_main ==
    /\ pc = "build.rs"
    /\ GIT_DESCRIBE' = git_describe(describe)
    /\ pc' = "built"
    /\ UNCHANGED <<inputs, loader, describe, entered, fs, fsOps, scan, cmds, depIdx, out, log,
                   err, shown, exit, report>>

----------------------------------------------------------------------------
(* Initial states *)

DemoProject == <<"a", "-", "7">>

\* A command line without --directory and without --config.
Request(project, author, no_git, no_sample_config, no_verify, no_deps) ==
    [project |-> project, author |-> author, directory |-> NoDirectory, config |-> NoPath,
     no_git |-> no_git, no_sample_config |-> no_sample_config, no_verify |-> no_verify,
     no_deps |-> no_deps]

Configuration(default_author, create_git_repo, create_sample_config, dependencies) ==
    [default_author |-> default_author, create_git_repo |-> create_git_repo,
     create_sample_config |-> create_sample_config,
     template |-> [dependencies |-> dependencies]]

\* Every name up to the bound, against a few targets.
NameSweep ==
    {<<Request(p, CustomAuthor, g, FALSE, v, d),
       Configuration(DefaultAuthor, TRUE, TRUE, <<CHOOSE x \in DepPool : x.name = "clap">>),
       t>> :
        p \in NamesUpTo(MaxNameLen), g \in BOOLEAN, v \in BOOLEAN, d \in BOOLEAN,
        t \in {Absent, DirWith({"README.md"}), DirWith({"notes.txt"})}}

\* Every target, against every combination of the stage switches.
TargetSweep ==
    {<<Request(DemoProject, NoAuthor, g, FALSE, v, d),
       Configuration(DefaultAuthor, c, TRUE, <<CHOOSE x \in DepPool : x.name = "eyre">>),
       t>> :
        g \in BOOLEAN, v \in BOOLEAN, d \in BOOLEAN, c \in BOOLEAN,
        t \in {Absent, RegularFile} \cup {DirWith(s) : s \in SUBSET PreNames}}

\* Every dependency list up to the bound.
DependencySweep ==
    {<<Request(DemoProject, NoAuthor, g, FALSE, v, d),
       Configuration(DefaultAuthor, TRUE, TRUE, deps),
       t>> :
        g \in BOOLEAN, v \in BOOLEAN, d \in BOOLEAN, deps \in DepLists(MaxDeps),
        t \in {Absent, DirWith({".git"})}}

\* Every combination of the inputs of the materializer.
MaterializerSweep ==
    {<<Request(DemoProject, a, TRUE, s, TRUE, d),
       Configuration(da, TRUE, c, <<>>),
       Absent>> :
        a \in {NoAuthor, CustomAuthor, EmptyAuthor}, da \in {DefaultAuthor, TestAuthor},
        s \in BOOLEAN, d \in BOOLEAN, c \in BOOLEAN}

\* Config::default()
DefaultConfig == Configuration(DefaultAuthor, TRUE, TRUE, DefaultDependencies)

\* Directories --directory may name: /a/7 and ./a.
AbsoluteDir == [base |-> "/", components |-> << <<"a">>, <<"7">> >>]
RelativeDir == [base |-> ".", components |-> << <<"a">> >>]

\* Every choice of --directory, for two projects.
DirectorySweep ==
    {<<[Request(p, NoAuthor, g, FALSE, TRUE, TRUE) EXCEPT !.directory = dir],
       Configuration(DefaultAuthor, TRUE, TRUE, <<>>),
       t>> :
        p \in {DemoProject, <<"a">>}, g \in BOOLEAN,
        dir \in {NoDirectory, AbsoluteDir, RelativeDir},
        t \in {Absent, DirWith({"README.md"})}}

\* A command line that names the project and gives no option.
DefaultRun_cli == Request(DemoProject, NoAuthor, FALSE, FALSE, FALSE, FALSE)

\* The default configuration and a command line without options.
DefaultRun == {<<DefaultRun_cli, DefaultConfig, Absent>>}

\* create_project starts once Config::load has returned; the places Config::load
\* read are of no concern to it.
NoConfigFiles ==
    [config_dir |-> TRUE, explicit |-> NoFile, primary |-> NoFile, fallback |-> NoFile]

Scenarios ==
    NameSweep \cup TargetSweep \cup DependencySweep \cup MaterializerSweep \cup DefaultRun
        \cup DirectorySweep

Init ==
    /\ \E s \in Scenarios :
         /\ cli = s[1]
         /\ config = s[2]
         /\ fs0 = s[3]
    /\ fs = fs0
    /\ pc = "Validating"
    /\ entered = <<"Validating">>
    /\ fsOps = <<>>
    /\ scan = "none"
    /\ cmds = <<>>
    /\ depIdx = 1
    /\ out = <<>>
    /\ log = <<>>
    /\ err = NoErr
    /\ shown = <<>>
    /\ exit = <<>>
    /\ report = <<>>
    /\ disk = NoConfigFiles
    /\ loaded = NotLoaded
    /\ tried = <<>>
    /\ describe = GitDescribed(ReleaseTag)
    /\ GIT_DESCRIBE = ReleaseTag

Next ==
    \/ Validate
    \/ PrepareDirectory
    \/ Materialize
    \/ init_git_repo
    \/ init_git_repo_exit
    \/ add_dependencies
    \/ add_dependencies_exit
    \/ add_dependencies_done
    \/ verify_build
    \/ verify_build_exit
    \/ main_return

Spec == Init /\ [][Next]_vars

\* The steps create_project and main take themselves. The process is a single
\* thread that nothing suspends, so a step of the program that can be taken is
\* taken; whether a command that was started ever exits is left to the command.
ProgramStep ==
    \/ Validate
    \/ PrepareDirectory
    \/ Materialize
    \/ init_git_repo
    \/ add_dependencies
    \/ add_dependencies_done
    \/ verify_build
    \/ main_return

FairSpec == Spec /\ WF_vars(ProgramStep)

----------------------------------------------------------------------------
(* One run after another against the same target *)

\* The directory without the named children.
Without(d, names) ==
    IF d.kind = "dir"
    THEN [d EXCEPT !.entries = [n \in Children(d) \ names |-> d.entries[n]]]
    ELSE d

\* The process has ended and the tool is started again with the same command
\* line and configuration; in between the user may have removed what the
\* earlier run added to the target.
rerun ==
    /\ exit # <<>>
    /\ \E cleaned \in BOOLEAN :
         fs0' = IF cleaned THEN Without(fs, OutputNames) ELSE fs
    /\ fs' = fs0'
    /\ pc' = "Validating"
    /\ entered' = <<"Validating">>
    /\ fsOps' = <<>>
    /\ scan' = "none"
    /\ cmds' = <<>>
    /\ depIdx' = 1
    /\ out' = <<>>
    /\ log' = <<>>
    /\ err' = NoErr
    /\ shown' = <<>>
    /\ exit' = <<>>
    /\ report' = <<>>
    /\ UNCHANGED <<cli, config, loader, build>>

\* First runs whose target ends with at most six children: without build
\* verification, with and without the sample configuration, into an absent
\* target or a cloned repository; with build verification, without the sample
\* configuration, into an absent target.
RerunSweep ==
    {<<Request(DemoProject, NoAuthor, no_git, FALSE, TRUE, no_deps),
       Configuration(DefaultAuthor, TRUE, sample, deps), target>> :
        no_git \in BOOLEAN, no_deps \in BOOLEAN, sample \in BOOLEAN,
        deps \in DepLists(1),
        target \in {Absent, DirWith({"README.md"})}}
    \cup
    {<<Request(DemoProject, NoAuthor, no_git, FALSE, FALSE, no_deps),
       Configuration(DefaultAuthor, TRUE, FALSE, deps), Absent>> :
        no_git \in BOOLEAN, no_deps \in BOOLEAN,
        deps \in DepLists(1) \ {<<>>}}

RerunInit ==
    /\ \E s \in RerunSweep :
         /\ cli = s[1]
         /\ config = s[2]
         /\ fs0 = s[3]
    /\ fs = fs0
    /\ pc = "Validating"
    /\ entered = <<"Validating">>
    /\ fsOps = <<>>
    /\ scan = "none"
    /\ cmds = <<>>
    /\ depIdx = 1
    /\ out = <<>>
    /\ log = <<>>
    /\ err = NoErr
    /\ shown = <<>>
    /\ exit = <<>>
    /\ report = <<>>
    /\ disk = NoConfigFiles
    /\ loaded = NotLoaded
    /\ tried = <<>>
    /\ describe = GitDescribed(ReleaseTag)
    /\ GIT_DESCRIBE = ReleaseTag

RerunNext ==
    \/ Next
    \/ rerun

RerunSpec == RerunInit /\ [][RerunNext]_vars

----------------------------------------------------------------------------
(* Config::load on its own *)

CustomPath == "custom.yml"

\* The fields a hand-written configuration file may give, each with a value that
\* differs from the built-in default.
CustomDependencies ==
    Sequence(<<Mapping([name |-> Scalar("double", "custom-dep"),
                        features |-> Sequence(<<Scalar("double", "feature1"),
                                                Scalar("double", "feature2")>>)]),
               Mapping([name |-> Scalar("plain", "test-dep")])>>)

TemplateFields ==
    [create_build_rs |-> Scalar("plain", "false"), dependencies |-> CustomDependencies]

TopFields ==
    [default_author |-> Scalar("double", TestAuthor),
     default_license |-> Scalar("double", "Apache-2.0"),
     create_git_repo |-> Scalar("plain", "false"),
     create_sample_config |-> Scalar("plain", "false"),
     debug |-> Scalar("plain", "true")]

Restrict(f, S) == [x \in S |-> f[x]]

\* Every document that gives a subset of the fields, with or without a template
\* section that gives a subset of its own.
Documents ==
    {Mapping(Restrict(TopFields, S)) : S \in SUBSET DOMAIN TopFields}
    \cup {Mapping(Restrict(TopFields, S) @@
                  [template |-> Mapping(Restrict(TemplateFields, T))]) :
            S \in SUBSET DOMAIN TopFields, T \in SUBSET DOMAIN TemplateFields}

\* Documents that are YAML and no configuration.
IllTyped ==
    {Mapping([debug |-> Scalar("plain", "maybe")]),
     Mapping([template |-> Mapping([dependencies |->
                 Sequence(<<Mapping([features |-> Sequence(<<>>)])>>)])]),
     Sequence(<<>>)}

PrimaryDocument == Mapping(Restrict(TopFields, {"default_license"}))
FallbackDocument == Mapping(Restrict(TopFields, {"debug"}))

\* The configurations written out by the round-trip tests.
RoundTripConfigs ==
    {[Config_default EXCEPT !.default_author = a, !.debug = d, !.create_git_repo = g,
                            !.template.dependencies = deps] :
        a \in {DefaultAuthor, LeadingSpaceAuthor, LeadingDashAuthor},
        d \in BOOLEAN, g \in BOOLEAN, deps \in DepLists(MaxDeps)}

LoadRequest(path) == [DefaultRun_cli EXCEPT !.config = path]

\* --config given: every state of the file it names, while the other two
\* places hold configurations of their own.
ExplicitSweep ==
    {<<LoadRequest(CustomPath),
       [config_dir |-> TRUE, explicit |-> f, primary |-> File(PrimaryDocument),
        fallback |-> File(FallbackDocument)]>> :
        f \in {NoFile, Unreadable, File(Malformed)}
              \cup {File(d) : d \in Documents \cup IllTyped}}

\* No --config: every state of the two places of the fallback chain.
ChainSweep ==
    {<<LoadRequest(NoPath),
       [config_dir |-> c, explicit |-> NoFile, primary |-> p, fallback |-> f]>> :
        c \in BOOLEAN,
        p \in {NoFile, Unreadable, File(Malformed), File(PrimaryDocument)},
        f \in {NoFile, Unreadable, File(Malformed), File(FallbackDocument)}}

\* A configuration serialized to the file that --config names.
RoundTripSweep ==
    {<<LoadRequest(CustomPath),
       [config_dir |-> TRUE, explicit |-> File(to_string(cfg)), primary |-> NoFile,
        fallback |-> NoFile]>> :
        cfg \in RoundTripConfigs}

LoadInit ==
    /\ \E s \in ExplicitSweep \cup ChainSweep \cup RoundTripSweep :
         /\ cli = s[1]
         /\ disk = s[2]
    /\ pc = "Config::load"
    /\ loaded = NotLoaded
    /\ tried = <<>>
    /\ log = <<>>
    /\ config = DefaultConfig
    /\ fs0 = Absent
    /\ fs = fs0
    /\ entered = <<>>
    /\ fsOps = <<>>
    /\ scan = "none"
    /\ cmds = <<>>
    /\ depIdx = 1
    /\ out = <<>>
    /\ err = NoErr
    /\ shown = <<>>
    /\ exit = <<>>
    /\ report = <<>>
    /\ describe = GitDescribed(ReleaseTag)
    /\ GIT_DESCRIBE = ReleaseTag

LoadNext ==
    \/ load_explicit
    \/ load_primary
    \/ load_fallback
    \/ load_defaults

LoadSpec == LoadInit /\ [][LoadNext]_vars

----------------------------------------------------------------------------
(* build.rs on its own *)

BuildInit ==
    /\ describe \in BuildEnvironments
    /\ GIT_DESCRIBE = <<>>
    /\ pc = "build.rs"
    /\ cli = DefaultRun_cli
    /\ config = DefaultConfig
    /\ fs0 = Absent
    /\ fs = fs0
    /\ entered = <<>>
    /\ fsOps = <<>>
    /\ scan = "none"
    /\ cmds = <<>>
    /\ depIdx = 1
    /\ out = <<>>
    /\ log = <<>>
    /\ err = NoErr
    /\ shown = <<>>
    /\ exit = <<>>
    /\ report = <<>>
    /\ disk = NoConfigFiles
    /\ loaded = NotLoaded
    /\ tried = <<>>

BuildNext == build_rs_main

BuildSpec == BuildInit /\ [][BuildNext]_vars

----------------------------------------------------------------------------
(* Vocabulary of the properties *)

Range(f) == {f[i] : i \in DOMAIN f}

StageIndex(stage) == CHOOSE i \in DOMAIN Stages : Stages[i] = stage

Called(op) == \E i \in DOMAIN fsOps : fsOps[i].op = op

\* The characters of the pattern [A-Za-z0-9_-].
AsciiWordChars == {"a", "7", "-", "_"}

MatchesAsciiPattern(name) == name # <<>> /\ \A i \in DOMAIN name : name[i] \in AsciiWordChars

HasLeadingDashOrUnderscore(name) == name # <<>> /\ name[1] \in {"-", "_"}

\* The three rules of the name validator, each as the specification words it.
RuleViolated(name) ==
    \/ name = <<>>
    \/ HasLeadingDashOrUnderscore(name)
    \/ \E i \in DOMAIN name : ~(is_alphanumeric(name[i]) \/ name[i] \in {"-", "_"})

OnAllowList(name) == \E a \in ALLOWED_FILES : AsciiLower[name] = AsciiLower[a]

HasForeignChild(d) == d.kind = "dir" /\ \E n \in Children(d) : ~OnAllowList(n)

GitEnabled == ~cli.no_git /\ config.create_git_repo

IsFailure(attempt) == attempt.status \in {"exit 1", "spawn failed"}

\* The attempted invocations of cargo add, in order.
AddAttempts == SelectSeq(cmds, LAMBDA c : c.prog = "cargo" /\ c.args[1] = <<"add">>)

GitInitExitedNonZero ==
    \E i \in DOMAIN cmds : cmds[i].prog = "git" /\ cmds[i].status = "exit 1"

----------------------------------------------------------------------------
(* Properties *)

\* C1: the stages are entered only in the order Validating, PreparingDirectory,
\* Materializing, InitializingVersionControl, ResolvingDependencies,
\* VerifyingBuild, Done: the sequence of stages entered is strictly increasing
\* in that order (none twice, none after a later one), it starts with the three
\* stages that cannot be skipped, and the running stage is the last one entered.
C1_StagesInOrder ==
    /\ \A i, j \in DOMAIN entered :
          i < j => StageIndex(entered[i]) < StageIndex(entered[j])
    /\ \A i \in DOMAIN entered : i <= 3 => entered[i] = Stages[i]
    /\ pc # "Aborted" => pc = entered[Len(entered)]

C1_Witness ==
    /\ pc = "Done"
    /\ entered = Stages

\* C2: the Aborted state is never reached from the InitializingVersionControl
\* stage, whether git init exits non-zero or cannot be spawned.
C2_NoAbortFromVersionControl ==
    ~(pc = "Aborted" /\ err.stage = "InitializingVersionControl")

\* C3: when git init runs and exits non-zero, the stage ends in a warning that is
\* printed and logged, control moves on to the stage that follows version
\* control, and no error ever comes from the version-control stage.
C3_NonZeroGitInitIsWarning ==
    GitInitExitedNonZero =>
        /\ pc # "InitializingVersionControl"
        /\ err.stage # "InitializingVersionControl"
        /\ "Git init failed, continuing without git repository" \in Range(out)
        /\ Warn("Git init failed, continuing without git repository") \in Range(log)
        /\ \E k \in DOMAIN entered :
              /\ entered[k] = "InitializingVersionControl"
              /\ k < Len(entered)
              /\ entered[k + 1] =
                    (IF ~cli.no_deps THEN "ResolvingDependencies"
                     ELSE IF ~cli.no_verify THEN "VerifyingBuild" ELSE "Done")

C3_Witness ==
    /\ GitInitExitedNonZero
    /\ pc = "Done"
    /\ "ResolvingDependencies" \in Range(entered)
    /\ "VerifyingBuild" \in Range(entered)

\* C4: the add command is attempted for the dependencies in declaration order,
\* and the first attempt that fails (non-zero exit or spawn failure) is the last
\* command of the run: every earlier attempt succeeded, no later dependency is
\* attempted, the run is Aborted and the error names the failing dependency.
C4_FirstFailingDependencyAborts ==
    LET attempts == AddAttempts
        deps == config.template.dependencies
    IN  /\ Len(attempts) <= Len(deps)
        /\ \A k \in DOMAIN attempts : attempts[k].args[2] = <<deps[k].name>>
        /\ \A k \in DOMAIN attempts :
              IsFailure(attempts[k]) =>
                 /\ k = Len(attempts)
                 /\ cmds[Len(cmds)] = attempts[k]
                 /\ \A j \in 1..(k - 1) : attempts[j].status = "exit 0"
                 /\ pc = "Aborted"
                 /\ err.stage = "ResolvingDependencies"
                 /\ err.msg = "Failed to add dependency"
                 /\ err.subject = deps[k].name

C4_Witness ==
    /\ pc = "Aborted"
    /\ Len(config.template.dependencies) = 3
    /\ Len(AddAttempts) = 2
    /\ IsFailure(AddAttempts[2])
    /\ config.template.dependencies[2].name # config.template.dependencies[1].name
    /\ config.template.dependencies[2].name # config.template.dependencies[3].name

C6_InvalidNameTouchesNothing ==
    RuleViolated(cli.project) =>
        /\ pc \in {"Validating", "Aborted"}
        /\ fsOps = <<>>
        /\ fs = fs0
        /\ cmds = <<>>
        /\ pc = "Aborted" => (err.stage = "Validating" /\ err.kind = "Validation")

C6_Witness ==
    /\ RuleViolated(cli.project)
    /\ pc = "Aborted"
    /\ Exists(fs0)

\* C7: every name that matches [A-Za-z0-9_-]+ and does not start with '-' or '_'
\* passes validation: the run never aborts in Validating and its next stage is
\* PreparingDirectory.
C7_AsciiNamesPass ==
    (MatchesAsciiPattern(cli.project) /\ ~HasLeadingDashOrUnderscore(cli.project)) =>
        /\ err.stage # "Validating"
        /\ pc # "Validating" => (Len(entered) >= 2 /\ entered[2] = "PreparingDirectory")

C7_Witness ==
    /\ MatchesAsciiPattern(cli.project)
    /\ ~HasLeadingDashOrUnderscore(cli.project)
    /\ Len(cli.project) >= 2
    /\ \E i \in DOMAIN cli.project : cli.project[i] = "-"
    /\ "PreparingDirectory" \in Range(entered)

\* C8: every non-empty name that does not match [A-Za-z0-9_-]+ or that starts
\* with '-' or '_' fails validation: the run never gets past Validating.
C8_NonAsciiPatternNamesFail ==
    (cli.project # <<>> /\
       (~MatchesAsciiPattern(cli.project) \/ HasLeadingDashOrUnderscore(cli.project))) =>
        /\ pc \in {"Validating", "Aborted"}
        /\ pc = "Aborted" => err.kind = "Validation"

\* C9: once the safety check has accepted the target directory, the target stays
\* a directory and every child it had before the run is still there.
C9_AcceptedDirectoryKeepsEntries ==
    scan = "Ok(true)" =>
        /\ fs.kind = "dir"
        /\ \A n \in Children(fs0) : n \in Children(fs)

C9_Witness ==
    /\ scan = "Ok(true)"
    /\ Cardinality(Children(fs0)) >= 2
    /\ pc = "Done"
    /\ Len(cmds) >= 3

README_LICENSE_GIT == DirWith({"README.md", "LICENSE", ".git"})

C11_ExistingGitDirSkipsInit ==
    [][ /\ (pc = "InitializingVersionControl" /\ ~InFlight /\ ".git" \in Children(fs)) =>
              /\ cmds' = cmds
              /\ fs' = fs
              /\ pc' \notin {"InitializingVersionControl", "Aborted"}
        /\ (pc = "InitializingVersionControl" /\ InFlight
              /\ cmds'[Len(cmds')].status = "exit 0") =>
              ".git" \in Children(fs')
      ]_vars

C11_Witness ==
    /\ ".git" \in Children(fs0)
    /\ "InitializingVersionControl" \in Range(entered)
    /\ pc = "Done"
    /\ \A i \in DOMAIN cmds : cmds[i].prog # "git"

\* C12: the stage that follows Materializing is InitializingVersionControl
\* exactly when no_git is unset and create_git_repo is true; when the stage is
\* skipped git is never attempted and a target without .git stays without it.
C12_VersionControlStageIffEnabled ==
    /\ Len(entered) >= 4 => ((entered[4] = "InitializingVersionControl") <=> GitEnabled)
    /\ "InitializingVersionControl" \in Range(entered) => GitEnabled
    /\ ~GitEnabled =>
          /\ \A i \in DOMAIN cmds : cmds[i].prog # "git"
          /\ ".git" \notin Children(fs0) => ".git" \notin Children(fs)

C12_Witness ==
    /\ ~cli.no_git
    /\ ~config.create_git_repo
    /\ pc = "Done"
    /\ cmds # <<>>
    /\ ".git" \notin Children(fs)

BuildExitedNonZero ==
    /\ cmds # <<>>
    /\ cmds[Len(cmds)].args = << <<"build">> >>
    /\ cmds[Len(cmds)].status = "exit 1"

C14_ExitCodeMatchesOutcome ==
    /\ exit # <<>> =>
          /\ pc \in {"Done", "Aborted"}
          /\ (exit[1] = 0) <=> (pc = "Done")
          /\ (exit[1] # 0) <=> (pc = "Aborted")
    /\ (pc \in {"Done", "Aborted"} /\ exit = <<>>) => ENABLED main_return

C14_Witness ==
    /\ exit = <<1>>
    /\ err.kind = "DirectoryOccupied"

\* C15: on every Aborted run the message of the fatal error is written both to
\* standard error and to the log.
C15_FatalErrorPrintedAndLogged ==
    (exit # <<>> /\ pc = "Aborted") =>
        /\ err.msg \in Range(report)
        /\ \E i \in DOMAIN log : log[i][2] = err.msg

\* What has been observed of a failing stage.
C16_FailureStopsTheRun ==
    /\ \A i \in DOMAIN cmds :
          (cmds[i].prog = "cargo" /\ IsFailure(cmds[i])) =>
             /\ i = Len(cmds)
             /\ pc = "Aborted"
             /\ err.stage = (IF cmds[i].args[1] = <<"add">>
                             THEN "ResolvingDependencies" ELSE "VerifyingBuild")
    /\ scan \in {"Err", "Ok(false)"} =>
          /\ pc = "Aborted"
          /\ err.stage = "PreparingDirectory"
          /\ "Materializing" \notin Range(entered)
    /\ (RuleViolated(cli.project) /\ pc # "Validating") =>
          (pc = "Aborted" /\ err.stage = "Validating")
    /\ pc = "Aborted" => (err # NoErr /\ err.stage = entered[Len(entered)])
    /\ pc # "Aborted" => err = NoErr

\* C16: once a stage other than version control has failed the run is Aborted
\* with the error of that stage, which is the last stage entered, the failing
\* command is the last command, and from Aborted on no stage is entered, no
\* command is attempted, nothing is written and the error stays the same.
C16_NoStageSwallowsFatalError ==
    /\ []C16_FailureStopsTheRun
    /\ [][pc = "Aborted" => UNCHANGED <<pc, entered, cmds, fs, fsOps, err, out, log>>]_vars

C16_Witness ==
    /\ pc = "Aborted"
    /\ err.stage = "Materializing"
    /\ exit = <<1>>
    /\ ~cli.no_deps
    /\ ~cli.no_verify

\* The stage a message names, "none" for a message that names no stage.
StageNamedBy(msg) ==
    CASE msg \in {EmptyNameMsg, LeadingCharMsg, CharsetMsg} -> "Validating"
      [] msg \in {"Directory already exists and contains non-repo files",
                  "Failed to create project directory"} -> "PreparingDirectory"
      [] msg = "generate_project failed" -> "Materializing"
      [] msg = "Failed to run git init" -> "InitializingVersionControl"
      [] msg = "Failed to add dependency" -> "ResolvingDependencies"
      [] msg \in {"Failed to run cargo build", "Generated project failed to build"} ->
            "VerifyingBuild"
      [] OTHER -> "none"

\* C17: the error of every Aborted run carries a message that names the stage
\* in which it arose.
C17_ErrorNamesItsStage ==
    pc = "Aborted" => StageNamedBy(err.msg) = err.stage

NothingSkipped == GitEnabled /\ ~cli.no_deps /\ ~cli.no_verify

MaterializerCalls == Cardinality({i \in DOMAIN fsOps : fsOps[i].op = "generate_project"})

\* C18: in a run with a valid name, an absent target and no stage skipped, the
\* materializer has been called exactly once before any command is attempted;
\* at Done the commands are git init, then cargo add for each configured
\* dependency in declaration order, then cargo build, each attempted once, all
\* have exited and every cargo command with 0, and the exit code is 0; the run
\* is Aborted only if creating the directory, the materializer or its last
\* command failed.
C18_FullRunInvokesEverythingInOrder ==
    (NothingSkipped /\ fs0 = Absent /\ ~RuleViolated(cli.project)) =>
        LET deps == config.template.dependencies IN
        /\ cmds # <<>> => MaterializerCalls = 1
        /\ MaterializerCalls <= 1
        /\ pc = "Done" =>
              /\ Len(cmds) = Len(deps) + 2
              /\ cmds[1].prog = "git" /\ cmds[1].args = << <<"init">> >>
              /\ \A k \in DOMAIN deps :
                    /\ cmds[k + 1].prog = "cargo"
                    /\ cmds[k + 1].args[1] = <<"add">>
                    /\ cmds[k + 1].args[2] = <<deps[k].name>>
              /\ cmds[Len(cmds)].prog = "cargo" /\ cmds[Len(cmds)].args = << <<"build">> >>
              /\ \A i \in DOMAIN cmds : cmds[i].prog = "cargo" => cmds[i].status = "exit 0"
              /\ cmds[1].status \in {"exit 0", "exit 1"}
              /\ exit # <<>> => exit = <<0>>
        /\ pc = "Aborted" =>
              \/ err.stage \in {"PreparingDirectory", "Materializing"}
              \/ (cmds # <<>> /\ IsFailure(cmds[Len(cmds)]))

C18_Witness ==
    /\ config = DefaultConfig
    /\ NothingSkipped
    /\ fs0 = Absent
    /\ pc = "Done"
    /\ exit = <<0>>
    /\ \A i \in DOMAIN cmds : cmds[i].status = "exit 0"

StageEnabled(stage) ==
    CASE stage = "InitializingVersionControl" -> GitEnabled
      [] stage = "ResolvingDependencies" -> ~cli.no_deps
      [] stage = "VerifyingBuild" -> ~cli.no_verify
      [] OTHER -> TRUE

\* C19: with no_deps set cargo add is never attempted and ResolvingDependencies
\* is never entered, with no_verify set cargo build is never attempted and
\* VerifyingBuild is never entered, and each stage entered is followed by the
\* first stage after it that is not switched off.
C19_SkippedStagesDoNothing ==
    /\ cli.no_deps =>
          /\ AddAttempts = <<>>
          /\ "ResolvingDependencies" \notin Range(entered)
    /\ cli.no_verify =>
          /\ \A i \in DOMAIN cmds : cmds[i].args # << <<"build">> >>
          /\ "VerifyingBuild" \notin Range(entered)
    /\ \A k \in 1..(Len(entered) - 1) :
          /\ StageEnabled(entered[k + 1])
          /\ \A j \in DOMAIN Stages :
                (StageIndex(entered[k]) < j /\ j < StageIndex(entered[k + 1])) =>
                   ~StageEnabled(Stages[j])

C19_Witness ==
    /\ cli.no_deps
    /\ cli.no_verify
    /\ GitEnabled
    /\ pc = "Done"
    /\ Len(cmds) = 1

\* C20: after a successful materialization the sample configuration file is
\* absent when no_sample_config is set, and present when it is unset and the
\* configuration asks for it.
C20_NoSampleConfigFlagHonoured ==
    Len(entered) >= 4 =>
        /\ cli.no_sample_config => SampleConfigName \notin Children(fs)
        /\ (~cli.no_sample_config /\ config.create_sample_config) =>
              SampleConfigName \in Children(fs)

\* C21: the author create_project hands to generate_project is the author of the
\* command line whenever one is given (an empty one included), and the default
\* author of the configuration otherwise; the materializer is never called with
\* any other author.
C21_MaterializerGetsEffectiveAuthor ==
    \A i \in DOMAIN fsOps :
        fsOps[i].op = "generate_project" =>
            /\ cli.author # NoAuthor => fsOps[i].args[1] = cli.author
            /\ cli.author = NoAuthor => fsOps[i].args[1] = config.default_author

\* The materializer has been called in a run with an empty author on the command
\* line and a configuration whose default author is not the built-in one.
C21_Witness ==
    /\ Called("generate_project")
    /\ cli.author = EmptyAuthor
    /\ config.default_author = TestAuthor

FileSystemCalls == {"exists", "read_dir", "create_dir_all", "generate_project"}

\* What an aborted run leaves on disk: every child the target had before the
\* run, the .git of a git init that exited with 0 and, once the materializer has
\* returned, every generated file and in the manifest every dependency whose
\* cargo add exited with 0.
C22_WrittenFilesRemain ==
    (pc = "Aborted" /\ err.stage \in {"Materializing", "ResolvingDependencies", "VerifyingBuild"}) =>
        /\ Children(fs0) \subseteq Children(fs)
        /\ \A i \in DOMAIN fsOps : fsOps[i].op \in FileSystemCalls
        /\ (\E i \in DOMAIN cmds : cmds[i].prog = "git" /\ cmds[i].status = "exit 0") =>
              ".git" \in Children(fs)
        /\ err.stage # "Materializing" =>
              LET files == GeneratedFiles(EffectiveAuthor, config, cli.no_deps) IN
              /\ \A k \in DOMAIN files : files[k][1] \in Children(fs)
              /\ \A k \in DOMAIN AddAttempts :
                    AddAttempts[k].status = "exit 0" =>
                        AddAttempts[k].args[2][1] \in Range(fs.entries["Cargo.toml"])

\* C22: an abort during Materializing, ResolvingDependencies or VerifyingBuild
\* rolls nothing back: the aborting step removes no child of the target (an
\* abort of the dependency or build stage leaves the target exactly as it was
\* before the step), the aborted run keeps the files materialized and the
\* dependencies added before the failure, and no later step touches the target
\* or makes another file-system call.
C22_NoRollbackOnAbort ==
    /\ []C22_WrittenFilesRemain
    /\ [][(pc \in {"Materializing", "ResolvingDependencies", "VerifyingBuild"} /\ pc' = "Aborted") =>
             /\ Children(fs) \subseteq Children(fs')
             /\ pc # "Materializing" => fs' = fs]_vars
    /\ [][pc = "Aborted" => (fs' = fs /\ fsOps' = fsOps)]_vars

\* The dependency stage has aborted on its second dependency after the first
\* was added to the manifest.
C22_Witness ==
    /\ pc = "Aborted"
    /\ err.stage = "ResolvingDependencies"
    /\ Len(AddAttempts) = 2
    /\ AddAttempts[1].status = "exit 0"
    /\ AddAttempts[2].status = "exit 1"
    /\ AddAttempts[1].args[2][1] \in Range(fs.entries["Cargo.toml"])

\* Whether a place of the fallback chain holds a configuration that loads.
PrimaryLoads == disk.config_dir /\ load_from_file(disk.primary).ok
FallbackLoads == load_from_file(disk.fallback).ok

\* C23: with --config given, Config::load reads the named file and nothing
\* else, and returns the configuration parsed from it when the file is there,
\* readable and a well-typed document, and an error in every other case; it
\* never goes on to the primary location, to ./scaffold.yml or to the defaults,
\* even when those hold configurations that load.
C23_ExplicitPathNeverFallsBack ==
    cli.config # NoPath =>
        /\ pc \in {"Config::load", "returned"}
        /\ \A i \in DOMAIN tried : tried[i] = "explicit"
        /\ pc = "returned" =>
              LET parses == /\ disk.explicit.state = "file"
                            /\ disk.explicit.text.kind = "map"
                            /\ de_Config(disk.explicit.text).ok
              IN  /\ tried = <<"explicit">>
                  /\ loaded.source = "explicit"
                  /\ loaded.ok <=> parses
                  /\ loaded.ok => loaded.value = de_Config(disk.explicit.text).value

\* --config named a missing file and Config::load returned an error although
\* the primary location and ./scaffold.yml both hold a configuration that loads.
C23_Witness ==
    /\ pc = "returned"
    /\ cli.config # NoPath
    /\ disk.explicit = NoFile
    /\ ~loaded.ok
    /\ PrimaryLoads
    /\ FallbackLoads

\* C24: without --config, Config::load returns the configuration of the primary
\* file when that file exists and loads, and then never reads ./scaffold.yml;
\* otherwise the configuration of ./scaffold.yml when that exists and loads;
\* otherwise the built-in defaults. It never returns an error.
C24_FallbackChain ==
    (cli.config = NoPath /\ pc = "returned") =>
        /\ loaded.ok
        /\ PrimaryLoads =>
              /\ loaded.source = "primary"
              /\ loaded.value = de_Config(disk.primary.text).value
              /\ tried = <<"primary">>
        /\ (~PrimaryLoads /\ FallbackLoads) =>
              /\ loaded.source = "fallback"
              /\ loaded.value = de_Config(disk.fallback.text).value
        /\ (~PrimaryLoads /\ ~FallbackLoads) =>
              /\ loaded.source = "defaults"
              /\ loaded.value = Config_default

\* The primary file exists and is malformed, and ./scaffold.yml was loaded.
C24_Witness ==
    /\ pc = "returned"
    /\ cli.config = NoPath
    /\ disk.primary = File(Malformed)
    /\ tried = <<"primary", "fallback">>
    /\ loaded.source = "fallback"
    /\ loaded.ok

\* The value a scalar of a well-formed document stands for.
BoolOf(node) == node.text = "true"

\* The dependency a well-formed document describes at one position of its list.
DependencyOf(node) ==
    [name |-> node.fields["name"].text,
     features |-> IF "features" \in DOMAIN node.fields
                  THEN [i \in DOMAIN node.fields["features"].items |->
                           node.fields["features"].items[i].text]
                  ELSE <<>>]

\* C25: in a configuration loaded from a hand-written file every field the file
\* gives has the file's value and every field it omits has the value of the
\* built-in default, at the top level and inside the template section, for
\* every subset of the fields.
C25_LoadedConfigFullyDefaulted ==
    (pc = "returned" /\ loaded.ok /\ loaded.source # "defaults"
        /\ disk[loaded.source].text \in Documents) =>
        LET doc == disk[loaded.source].text.fields
            cfg == loaded.value
        IN  /\ \A f \in {"default_author", "default_license"} :
                  cfg[f] = IF f \in DOMAIN doc THEN doc[f].text ELSE Config_default[f]
            /\ \A f \in {"create_git_repo", "create_sample_config", "debug"} :
                  cfg[f] = IF f \in DOMAIN doc THEN BoolOf(doc[f]) ELSE Config_default[f]
            /\ IF "template" \notin DOMAIN doc
               THEN cfg.template = TemplateConfig_default
               ELSE LET t == doc["template"].fields IN
                    /\ cfg.template.create_build_rs =
                          IF "create_build_rs" \in DOMAIN t
                          THEN BoolOf(t["create_build_rs"])
                          ELSE TemplateConfig_default.create_build_rs
                    /\ cfg.template.dependencies =
                          IF "dependencies" \in DOMAIN t
                          THEN [i \in DOMAIN t["dependencies"].items |->
                                   DependencyOf(t["dependencies"].items[i])]
                          ELSE TemplateConfig_default.dependencies

\* A file that gives the author, the debug switch and a template section with
\* nothing but create_build_rs has been loaded.
C25_Witness ==
    /\ pc = "returned"
    /\ loaded.ok
    /\ loaded.source = "explicit"
    /\ disk.explicit.text \in Documents
    /\ DOMAIN disk.explicit.text.fields = {"default_author", "debug", "template"}
    /\ DOMAIN disk.explicit.text.fields["template"].fields = {"create_build_rs"}
    /\ loaded.value.default_license = "MIT"
    /\ loaded.value.template.dependencies = DefaultDependencies

TargetCalls == {"exists", "read_dir", "create_dir_all"}

\* C27: every file-system call and every external command of the run is
\* directed at the --directory path when one is given, and at the relative path
\* of the single name <project> otherwise; a run with a valid name, no
\* --directory and no such directory yet creates the directory <project> under
\* the current working directory.
C27_TargetIsOverrideOrProjectName ==
    LET expected == IF cli.directory = NoDirectory
                    THEN [base |-> ".", components |-> <<cli.project>>]
                    ELSE cli.directory
    IN  /\ \A i \in DOMAIN fsOps :
              /\ fsOps[i].op \in TargetCalls =>
                    fsOps[i].args[1] \in {expected, Join(expected, <<".git">>)}
              /\ fsOps[i].op \in {"read_dir", "create_dir_all"} => fsOps[i].args[1] = expected
              /\ fsOps[i].op = "generate_project" => fsOps[i].args[3] = expected
        /\ \A i \in DOMAIN cmds : cmds[i].cwd = expected
        /\ (cli.directory = NoDirectory /\ fs0 = Absent /\ "Materializing" \in Range(entered)) =>
              /\ \E i \in DOMAIN fsOps :
                    fsOps[i] = Call("create_dir_all",
                                    <<[base |-> ".", components |-> <<cli.project>>]>>)
              /\ fs.kind = "dir"

\* A run without --directory has created the directory named after the project
\* and finished.
C27_Witness ==
    /\ cli.directory = NoDirectory
    /\ fs0 = Absent
    /\ pc = "Done"
    /\ Called("create_dir_all")
    /\ fs.kind = "dir"

\* A character no reading of the third rule allows.
HasDisallowedChar(name) == \E i \in DOMAIN name : name[i] = "@"

\* C28: the error of a rejected name is that of the first rule it breaks, in the
\* order empty, leading '-' or '_', character set: the empty name reports the
\* empty-name error and nothing else does; a name that starts with '-' or '_'
\* reports the leading-character error, also when it contains a disallowed
\* character; the character-set error is reported only for a non-empty name
\* that does not start with '-' or '_'.
C28_FirstFailingRuleReported ==
    (pc = "Aborted" /\ err.stage = "Validating") =>
        /\ err.msg \in {EmptyNameMsg, LeadingCharMsg, CharsetMsg}
        /\ err.msg = EmptyNameMsg <=> cli.project = <<>>
        /\ err.msg = LeadingCharMsg <=> HasLeadingDashOrUnderscore(cli.project)
        /\ (HasLeadingDashOrUnderscore(cli.project) /\ HasDisallowedChar(cli.project)) =>
              err.msg # CharsetMsg
        /\ (~HasLeadingDashOrUnderscore(cli.project) /\ HasDisallowedChar(cli.project)) =>
              err.msg = CharsetMsg

\* The name "-@" breaks the second and the third rule and was rejected with the
\* error of the second.
C28_Witness ==
    /\ pc = "Aborted"
    /\ cli.project = <<"-", "@">>
    /\ err.msg = LeadingCharMsg

AllChildrenAllowed(d) == \A n \in Children(d) : OnAllowList(n)

\* C29 as the claim words it: the check accepts an existing directory exactly
\* when every direct child is on the allow-list, ignoring ASCII case.
C29_AcceptedIffAllChildrenAllowed ==
    (scan # "none" /\ fs0.kind = "dir") =>
        (scan = "Ok(true)" <=> AllChildrenAllowed(fs0))

\* C29, amended: the check accepts an existing directory exactly when it
\* enumerates it to the end without an I/O error and every direct child is on
\* the allow-list, ignoring ASCII case; whenever it returns a verdict, the
\* verdict is "accepted" for a directory whose children are all allowed (the
\* empty directory among them) and "occupied" for one with a child that is not,
\* in every enumeration order; an I/O error of read_dir, or of an entry met
\* before any child that is not allowed, is returned instead of a verdict.
C29_AcceptedIffAllAllowedAndReadable ==
    /\ (scan \in {"Ok(true)", "Ok(false)"}) =>
          /\ fs0.kind = "dir"
          /\ scan = "Ok(true)" <=> AllChildrenAllowed(fs0)
    /\ (pc = "PreparingDirectory" /\ fs.kind = "dir") =>
          LET n == Cardinality(Children(fs)) IN
          \A order \in ReadOrders(fs) :
              /\ is_scaffoldable_directory(fs, order, n + 1) =
                    IF AllChildrenAllowed(fs) THEN "Ok(true)" ELSE "Ok(false)"
              /\ \A faultAt \in 0..n :
                    is_scaffoldable_directory(fs, order, faultAt) =
                        IF \E i \in 1..(faultAt - 1) : ~OnAllowList(order[i])
                        THEN "Ok(false)"
                        ELSE "Err"

\* A directory of two children, one of them an allow-listed name in another
\* case, has been accepted.
C29_Witness ==
    /\ scan = "Ok(true)"
    /\ "Readme.MD" \in Children(fs0)
    /\ Cardinality(Children(fs0)) >= 2

\* C30: PreparingDirectory leaves an existing target exactly as it was and
\* makes no call that creates anything; it turns an absent target into an
\* empty directory, or aborts with the creation failure and the target still
\* absent, and a run aborted in this stage never reaches the materializer.
C30_PreparingDirectoryOnlyCreates ==
    /\ [][pc = "PreparingDirectory" =>
             /\ Exists(fs) =>
                   /\ fs' = fs
                   /\ \A i \in DOMAIN fsOps' : fsOps'[i].op # "create_dir_all"
             /\ ~Exists(fs) =>
                   /\ fsOps'[Len(fsOps')] = Call("create_dir_all", <<target_dir>>)
                   /\ \/ pc' = "Materializing" /\ fs' = EmptyDir
                      \/ /\ pc' = "Aborted"
                         /\ fs' = fs
                         /\ err'.msg = "Failed to create project directory"]_vars
    /\ []((pc = "Aborted" /\ err.stage = "PreparingDirectory") =>
             /\ "Materializing" \notin Range(entered)
             /\ ~Called("generate_project"))

\* An existing directory with children has passed PreparingDirectory unchanged.
C30_Witness ==
    /\ pc = "Materializing"
    /\ fs0.kind = "dir"
    /\ Children(fs0) # {}
    /\ fs = fs0
    /\ ~Called("create_dir_all")

----------------------------------------------------------------------------
(* Dependency resolution, C31 *)

DepsResolved == "Dependencies added successfully" \in Range(out)

\* "--features=" followed by the features in their configured order, a comma
\* between neighbours.
FeaturesArgument(features) ==
    <<"--features=">> \o
    [i \in 1..(2 * Len(features) - 1) |->
        IF i % 2 = 1 THEN features[(i + 1) \div 2] ELSE ","]

\* C31: once dependency resolution has succeeded, cargo add has been invoked
\* exactly once per configured dependency, in declaration order, each time with
\* the dependency's name and each time exiting with 0; the invocation has one
\* further argument, the features comma-joined in configured order, when the
\* feature list is non-empty, and no further argument when it is empty.
C31_OneAddPerDependency ==
    DepsResolved =>
        LET deps == config.template.dependencies IN
        /\ Len(AddAttempts) = Len(deps)
        /\ \A k \in DOMAIN deps :
              /\ AddAttempts[k].status = "exit 0"
              /\ AddAttempts[k].args =
                    IF deps[k].features = <<>>
                    THEN << <<"add">>, <<deps[k].name>> >>
                    ELSE << <<"add">>, <<deps[k].name>>, FeaturesArgument(deps[k].features) >>

C31_Witness ==
    /\ DepsResolved
    /\ \E k \in DOMAIN config.template.dependencies :
          Len(config.template.dependencies[k].features) = 2
    /\ \E k \in DOMAIN config.template.dependencies :
          config.template.dependencies[k].features = <<>>

----------------------------------------------------------------------------
(* Sequential execution, C32 *)

RunningCommands == {i \in DOMAIN cmds : cmds[i].status = "running"}

\* The stage that runs the given command.
StageOf(cmd) ==
    IF cmd.prog = "git" THEN "InitializingVersionControl"
    ELSE IF cmd.args[1] = <<"add">> THEN "ResolvingDependencies"
    ELSE "VerifyingBuild"

\* At most one command is in flight, it is the one started last, and the
\* pipeline is still in the stage that started it.
C32_AtMostOneInFlight ==
    /\ Cardinality(RunningCommands) <= 1
    /\ RunningCommands # {} =>
          /\ RunningCommands = {Len(cmds)}
          /\ pc = StageOf(cmds[Len(cmds)])

\* C32: at every moment at most one external command is in flight; a command
\* is started only when none is in flight, one at a time; while a command is
\* in flight the only step is its return; and whenever control moves to
\* another stage no command is in flight.
C32_FullySequential ==
    /\ []C32_AtMostOneInFlight
    /\ [][/\ Len(cmds') > Len(cmds) => (~InFlight /\ Len(cmds') = Len(cmds) + 1)
          /\ InFlight => (Len(cmds') = Len(cmds) /\ ~InFlight')
          /\ pc' # pc => ~InFlight']_vars

C32_Witness ==
    /\ InFlight
    /\ Len(AddAttempts) >= 2
    /\ pc = "ResolvingDependencies"

----------------------------------------------------------------------------
(* Termination, C33 *)

Terminated == pc \in {"Done", "Aborted"}

\* C33: if every external command that is started returns, the pipeline
\* eventually is in Done or Aborted; if from some moment on a command stays in
\* flight for ever, the pipeline is never in Done or Aborted.
C33_TerminatesIffCommandsReturn ==
    /\ (InFlight ~> ~InFlight) => <>Terminated
    /\ (<>[]InFlight) => []~Terminated

C33_Witness ==
    /\ pc = "Done"
    /\ exit = <<0>>
    /\ \E i \in DOMAIN cmds : cmds[i].prog = "git"
    /\ AddAttempts # <<>>
    /\ cmds[Len(cmds)].args = << <<"build">> >>

----------------------------------------------------------------------------
(* The compiled version string, C34 *)

\* C34: once build.rs has run, GIT_DESCRIBE is not the empty string, whether
\* git describe succeeded, git could not be started, or git exited with an
\* error and printed nothing to standard output.
C34_VersionNeverEmpty ==
    pc = "built" => GIT_DESCRIBE # <<>>

----------------------------------------------------------------------------
(* What Done stands for, C35 *)

SummaryPrinted == \E i \in DOMAIN out : out[i] = Summary[1]

\* C35: at Done the name breaks none of the validator's rules, the target was
\* absent or a directory with no child off the allow-list, the materializer
\* was called once and every generated file is in the target, every configured
\* dependency has one cargo add that exited with 0 unless --no-deps is given, and
\* the last command is a cargo build that exited with 0 unless --no-verify is
\* given; the success summary is on standard output only at Done.
C35_DoneMeansEveryStageSucceeded ==
    /\ pc = "Done" =>
          /\ ~RuleViolated(cli.project)
          /\ fs0 = Absent \/ (fs0.kind = "dir" /\ AllChildrenAllowed(fs0))
          /\ scan \in {"none", "Ok(true)"}
          /\ MaterializerCalls = 1
          /\ LET files == GeneratedFiles(EffectiveAuthor, config, cli.no_deps) IN
                \A k \in DOMAIN files : files[k][1] \in Children(fs)
          /\ ~cli.no_deps =>
                /\ Len(AddAttempts) = Len(config.template.dependencies)
                /\ \A k \in DOMAIN AddAttempts : AddAttempts[k].status = "exit 0"
          /\ ~cli.no_verify =>
                /\ cmds # <<>>
                /\ cmds[Len(cmds)].args = << <<"build">> >>
                /\ cmds[Len(cmds)].status = "exit 0"
          /\ \A i \in DOMAIN cmds : cmds[i].prog = "cargo" => cmds[i].status = "exit 0"
          /\ err = NoErr
    /\ SummaryPrinted => pc = "Done"
    /\ pc = "Done" => SummaryPrinted

C35_Witness ==
    /\ pc = "Done"
    /\ SummaryPrinted
    /\ Children(fs0) # {}
    /\ ~cli.no_deps
    /\ config.template.dependencies # <<>>

----------------------------------------------------------------------------
(* A second run over the output of a first, C36 *)

\* The names of the files the materializer writes in this run.
GeneratedNames ==
    LET files == GeneratedFiles(EffectiveAuthor, config, cli.no_deps) IN
    {files[k][1] : k \in DOMAIN files}

\* The target held a generated file before this run started: an earlier run
\* wrote it and nobody has removed it.
OverOwnOutput == Children(fs0) \cap GeneratedNames # {}

----------------------------------------------------------------------------
(* Config::load without --config never fails, C37 *)

\* The file is there and cannot be read, or its text is not a configuration.
Unusable(file) ==
    \/ file.state = "unreadable"
    \/ file.state = "file" /\ (file.text.kind = "malformed" \/ ~de_Config(file.text).ok)

LoadWarnings == SelectSeq(log, LAMBDA r : r = Warn("Failed to load config from"))

\* The places read so far whose file could not be used.
SkippedPlaces ==
    {i \in DOMAIN tried :
        \/ tried[i] = "primary" /\ Unusable(disk.primary)
        \/ tried[i] = "fallback" /\ Unusable(disk.fallback)}

\* C37: without --config, Config::load never holds or returns an error. A
\* primary file that exists and cannot be used is read, logged as one warning
\* and left behind for ./scaffold.yml; a ./scaffold.yml that exists and cannot
\* be used is read, logged as one warning and left behind for the defaults;
\* there is one warning per skipped file and no other; and when neither place
\* gives a configuration the built-in defaults are returned.
C37_LoadWithoutPathNeverFails ==
    cli.config = NoPath =>
        /\ loaded = NotLoaded \/ loaded.ok
        /\ pc = "returned" => loaded.ok
        /\ Len(LoadWarnings) = Cardinality(SkippedPlaces)
        /\ (pc # "Config::load" /\ disk.config_dir /\ Unusable(disk.primary)) =>
              /\ tried # <<>> /\ tried[1] = "primary"
              /\ loaded.source # "primary"
              /\ pc = "returned" => (FileExists(disk.fallback) => "fallback" \in Range(tried))
        /\ (pc \in {"defaults", "returned"} /\ loaded.source # "primary"
              /\ Unusable(disk.fallback)) =>
              /\ tried[Len(tried)] = "fallback"
              /\ loaded.source \in {"none", "defaults"}
        /\ (pc = "returned" /\ ~(disk.config_dir /\ FileExists(disk.primary) /\ ~Unusable(disk.primary))
              /\ ~(FileExists(disk.fallback) /\ ~Unusable(disk.fallback))) =>
              /\ loaded.source = "defaults"
              /\ loaded.value = Config_default

\* Neither place could be used: two warnings, then the defaults.
C37_Witness ==
    /\ cli.config = NoPath
    /\ pc = "returned"
    /\ disk.primary = Unreadable
    /\ disk.fallback = File(Malformed)
    /\ Len(LoadWarnings) = 2
    /\ loaded.source = "defaults"

----------------------------------------------------------------------------
(* A target that cannot be listed, C38 *)

\* The positions of a listing at which a failing entry is reached: every
\* entry before it is on the allow-list.
ReachedPositions(order) ==
    {k \in 0..Len(order) : \A i \in 1..(k - 1) : OnAllowList(order[i])}

\* C38: a target that is a regular file is never listed with success; when
\* read_dir fails, or an entry the listing reaches fails, the check returns the
\* error and not a verdict, whatever the order of the listing; and once the
\* check has returned an error the run is Aborted in PreparingDirectory with
\* an I/O error, Materializing is never entered, the target is as it was,
\* nothing was created or generated and no command was attempted.
C38_UnlistableTargetAborts ==
    /\ (fs0.kind = "file" /\ scan # "none") => scan = "Err"
    /\ (pc = "PreparingDirectory" /\ Exists(fs)) =>
          \A order \in ReadOrders(fs) : \A k \in ReachedPositions(order) :
              is_scaffoldable_directory(fs, order, k) = "Err"
    /\ scan = "Err" =>
          /\ pc = "Aborted"
          /\ err.kind = "Io"
          /\ err.stage = "PreparingDirectory"
          /\ "Materializing" \notin Range(entered)
          /\ fs = fs0
          /\ \A i \in DOMAIN fsOps : fsOps[i].op \in {"exists", "read_dir"}
          /\ cmds = <<>>
          /\ ~SummaryPrinted

\* A directory whose children are all on the allow-list and whose listing
\* failed.
C38_Witness ==
    /\ scan = "Err"
    /\ fs0.kind = "dir"
    /\ Children(fs0) # {}
    /\ AllChildrenAllowed(fs0)
    /\ pc = "Aborted"
    /\ exit = <<1>>

====
